---- MODULE Spec2Model ----
(***************************************************************************)
(* Model of avrocado's schema inference (src/infer.go, lines 145-340):     *)
(* inferType, inferSchema and InferSchema, with the rendering done by      *)
(* encoding/json on TypedSchema.                                           *)
(*                                                                         *)
(* Go strings are sequences of one-character strings, so that prefix       *)
(* tests, trimming, splitting on "|" and JSON quoting are computed.        *)
(* A nil slice is the empty sequence: every slice the code tests against   *)
(* nil (types, items, values) is either nil or the result of strings.Split *)
(* or append, which has at least one element.                              *)
(* An error is the sequence of the segments of its message, outermost      *)
(* wrapper first; nil is the empty sequence.                               *)
(***************************************************************************)
EXTENDS Naturals, Sequences, FiniteSets, TLC

VARIABLES fallbackTag, v, pc, s, err, out

vars == <<fallbackTag, v, pc, s, err, out>>

\* Bounds of the input universe.
MaxDepth == 2
MaxFields == 3

-----------------------------------------------------------------------------
(* String literals of the source and of the inputs. *)

sNull == <<"n","u","l","l">>
sRecord == <<"r","e","c","o","r","d">>
sArray == <<"a","r","r","a","y">>
sMap == <<"m","a","p">>
sString == <<"s","t","r","i","n","g">>
sBoolean == <<"b","o","o","l","e","a","n">>
sInt == <<"i","n","t">>
sLong == <<"l","o","n","g">>
sDouble == <<"d","o","u","b","l","e">>
sAvro == <<"a","v","r","o">>
sJson == <<"j","s","o","n">>
sTypeEq == <<"t","y","p","e","=">>
sItemsEq == <<"i","t","e","m","s","=">>
sValuesEq == <<"v","a","l","u","e","s","=">>
sPipe == "|"

-----------------------------------------------------------------------------
(* package strings *)

HasPrefix(str, prefix) ==
    /\ Len(str) >= Len(prefix)
    /\ SubSeq(str, 1, Len(prefix)) = prefix

TrimPrefix(str, prefix) ==
    IF HasPrefix(str, prefix) THEN SubSeq(str, Len(prefix) + 1, Len(str)) ELSE str

RECURSIVE Split(_, _)
Split(str, sep) ==
    IF \E i \in 1..Len(str) : str[i] = sep
    THEN LET i == CHOOSE k \in 1..Len(str) :
                      /\ str[k] = sep
                      /\ \A j \in 1..(k - 1) : str[j] # sep
         IN <<SubSeq(str, 1, i - 1)>> \o Split(SubSeq(str, i + 1, Len(str)), sep)
    ELSE <<str>>

-----------------------------------------------------------------------------
(* interface{} values held by Type, Items, Values and the unexported lists *)

NilValue == [k |-> "nil"]
StringValue(str) == [k |-> "string", v |-> str]
SchemaValue(n) == [k |-> "schema", v |-> n]
ListValue(l) == [k |-> "list", v |-> l]

\* The zero TypedSchema.
TypedSchema ==
    [Name |-> <<>>, Type |-> NilValue, types |-> <<>>, items |-> <<>>,
     Items |-> NilValue, values |-> <<>>, Values |-> NilValue, Fields |-> <<>>]

\* for _, x := range list { dst = append(dst, x) }
AppendStrings(dst, list) == dst \o [i \in 1..Len(list) |-> StringValue(list[i])]

-----------------------------------------------------------------------------
(* reflect.Type descriptors and parsed struct tags (the inputs) *)

Scalar(kind, name) == [kind |-> kind, name |-> name]
PtrTo(t) == [kind |-> "ptr", name |-> <<>>, elem |-> t]
NamedPtrTo(name, t) == [kind |-> "ptr", name |-> name, elem |-> t]
SliceOf(t) == [kind |-> "slice", name |-> <<>>, elem |-> t]
MapOf(key, t) == [kind |-> "map", name |-> <<>>, key |-> key, elem |-> t]
StructOf(name, fields) == [kind |-> "struct", name |-> name, fields |-> fields]
StructField(name, type, tag) == [Name |-> name, Type |-> type, Tag |-> tag]

\* One key:"name,opt,..." pair of a struct tag.
Tag(key, name, options) == [Key |-> key, Name |-> name, Options |-> options]
\* A struct tag: the pairs structtag.Parse returns for it, or its error.
Tags(tags) == [err |-> <<>>, tags |-> tags]
BadTag == [err |-> <<"bad syntax for struct tag pair">>, tags |-> <<>>]

\* structtag.Parse(string(field.Tag))
Parse(tag) == tag

\* tags.Get(key) succeeds
HasTag(tags, key) == \E i \in 1..Len(tags) : tags[i].Key = key

\* tags.Get(key)
GetTag(tags, key) ==
    tags[CHOOSE i \in 1..Len(tags) :
             /\ tags[i].Key = key
             /\ \A j \in 1..(i - 1) : tags[j].Key # key]

-----------------------------------------------------------------------------
(* inferType *)

inferType(t) ==
    CASE t.kind = "string" -> [typ |-> sString, err |-> <<>>]
      [] t.kind = "bool" -> [typ |-> sBoolean, err |-> <<>>]
      [] t.kind \in {"int", "int8", "int16", "int32", "int64"} ->
            [typ |-> sInt, err |-> <<>>]
      [] t.kind \in {"uint", "uint8", "uint16", "uint32", "uint64"} ->
            [typ |-> sLong, err |-> <<>>]
      [] t.kind \in {"float32", "float64"} -> [typ |-> sDouble, err |-> <<>>]
      [] OTHER -> [typ |-> <<>>, err |-> <<"unsupported type", t.kind>>]

-----------------------------------------------------------------------------
(* inferSchema *)

\* fmt.Errorf(marker + ": %w", e)
Errorf(marker, e) == <<marker>> \o e

\* The single-vs-list collapsing of one unexported list into its attribute.
Collapse(list, old) ==
    IF Len(list) = 1 THEN list[1]
    ELSE IF Len(list) > 1 THEN ListValue(list)
    ELSE old

\* Mutant: the items list is never collapsed into Items.
CollapseAll_NoItems(n) ==
    [n EXCEPT !.Type = Collapse(n.types, @),
              !.Values = Collapse(n.values, @)]

\* The tail of inferSchema, after the switch.
CollapseAll(n) ==
    [n EXCEPT !.Type = Collapse(n.types, @),
              !.Items = Collapse(n.items, @),
              !.Values = Collapse(n.values, @)]

\* The tokens of every type= option, in order.
RECURSIVE TypeOptions(_)
TypeOptions(options) ==
    IF options = <<>> THEN <<>>
    ELSE (IF HasPrefix(Head(options), sTypeEq)
          THEN Split(TrimPrefix(Head(options), sTypeEq), sPipe)
          ELSE <<>>) \o TypeOptions(Tail(options))

\* The tokens of the last option with the given prefix; nil without one.
RECURSIVE LastOption(_, _)
LastOption(options, prefix) ==
    IF options = <<>> THEN <<>>
    ELSE LET last == options[Len(options)]
         IN IF HasPrefix(last, prefix)
            THEN Split(TrimPrefix(last, prefix), sPipe)
            ELSE LastOption(SubSeq(options, 1, Len(options) - 1), prefix)

\* The type= tokens appended to s.Fields[i].types.
FieldTypes(tags) ==
    IF HasTag(tags, sAvro) THEN TypeOptions(GetTag(tags, sAvro).Options) ELSE <<>>

FieldValues(tags) ==
    IF HasTag(tags, sAvro) THEN LastOption(GetTag(tags, sAvro).Options, sValuesEq)
    ELSE <<>>

FieldItems(tags) ==
    IF HasTag(tags, sAvro) THEN LastOption(GetTag(tags, sAvro).Options, sItemsEq)
    ELSE <<>>

\* Mutant: the fallback key is consulted before the canonical key.
FieldName_FallbackFirst(fb, tags, field) ==
    IF HasTag(tags, fb) THEN GetTag(tags, fb).Name
    ELSE IF HasTag(tags, sAvro) THEN GetTag(tags, sAvro).Name
    ELSE field.Name

\* The name of a field's node.
FieldName(fb, tags, field) ==
    IF HasTag(tags, sAvro) THEN GetTag(tags, sAvro).Name
    ELSE IF HasTag(tags, fb) THEN GetTag(tags, fb).Name
    ELSE field.Name

RECURSIVE inferSchema(_, _, _, _)
RECURSIVE StructLoop(_, _, _, _)

\* Mutant: the union lists "null" first.
PtrCase_NullFirst(fb, t, n, items, values) ==
    LET r == inferSchema(fb, t.elem, <<>>, <<>>)
    IN IF r.err # <<>>
       THEN [s |-> n, err |-> Errorf("ptr", r.err)]
       ELSE [s |-> [n EXCEPT !.types =
                        Append(Append(@, StringValue(sNull)), SchemaValue(r.s))],
             err |-> <<>>]

\* Mutant: the pointee inherits the overrides.
PtrCase_InheritOverrides(fb, t, n, items, values) ==
    LET r == inferSchema(fb, t.elem, items, values)
    IN IF r.err # <<>>
       THEN [s |-> n, err |-> Errorf("ptr", r.err)]
       ELSE [s |-> [n EXCEPT !.types =
                        Append(Append(@, SchemaValue(r.s)), StringValue(sNull))],
             err |-> <<>>]

PtrCase(fb, t, n, items, values) ==
    LET r == inferSchema(fb, t.elem, <<>>, <<>>)
    IN IF r.err # <<>>
       THEN [s |-> n, err |-> Errorf("ptr", r.err)]
       ELSE [s |-> [n EXCEPT !.types =
                        Append(Append(@, SchemaValue(r.s)), StringValue(sNull))],
             err |-> <<>>]

\* One iteration of the loop over the fields, then the rest of the loop.
StructLoop(fb, t, n, i) ==
    IF i > Len(t.fields) THEN [s |-> n, err |-> <<>>]
    ELSE
      LET field == t.fields[i]
          parsed == Parse(field.Tag)
      IN IF parsed.err # <<>>
         THEN [s |-> n, err |-> Errorf("struct", parsed.err)]
         ELSE
           LET name == FieldName(fb, parsed.tags, field)
               n1 == [n EXCEPT !.Fields[i].types =
                          AppendStrings(@, FieldTypes(parsed.tags))]
           IN IF n1.Fields[i].types = <<>>
              THEN LET r == inferSchema(fb, field.Type,
                                        FieldItems(parsed.tags),
                                        FieldValues(parsed.tags))
                   IN IF r.err # <<>>
                      THEN [s |-> [n1 EXCEPT !.Fields[i] = r.s],
                            err |-> Errorf("struct", r.err)]
                      ELSE StructLoop(fb, t,
                               [n1 EXCEPT !.Fields[i] = [r.s EXCEPT !.Name = name]],
                               i + 1)
              ELSE StructLoop(fb, t, [n1 EXCEPT !.Fields[i].Name = name], i + 1)

\* Mutant: the loop over the fields starts at the second field.
StructCase_SkipFirst(fb, t, n, items, values) ==
    StructLoop(fb, t,
               [n EXCEPT !.types = Append(@, StringValue(sRecord)),
                         !.Fields = [i \in 1..Len(t.fields) |-> TypedSchema]],
               2)

StructCase(fb, t, n, items, values) ==
    StructLoop(fb, t,
               [n EXCEPT !.types = Append(@, StringValue(sRecord)),
                         !.Fields = [i \in 1..Len(t.fields) |-> TypedSchema]],
               1)

\* Mutant: the element type is inferred whatever the items override.
SliceCase_IgnoreItems(fb, t, n, items, values) ==
    LET n1 == [n EXCEPT !.types = Append(@, StringValue(sArray))]
        r == inferSchema(fb, t.elem, <<>>, <<>>)
    IN IF r.err # <<>>
       THEN [s |-> n1, err |-> Errorf("slice", r.err)]
       ELSE [s |-> [n1 EXCEPT !.items = Append(@, SchemaValue(r.s))], err |-> <<>>]

SliceCase(fb, t, n, items, values) ==
    LET n1 == [n EXCEPT !.types = Append(@, StringValue(sArray))]
    IN IF items # <<>>
       THEN [s |-> [n1 EXCEPT !.items = AppendStrings(@, items)], err |-> <<>>]
       ELSE LET r == inferSchema(fb, t.elem, <<>>, <<>>)
            IN IF r.err # <<>>
               THEN [s |-> n1, err |-> Errorf("slice", r.err)]
               ELSE [s |-> [n1 EXCEPT !.items = Append(@, SchemaValue(r.s))],
                     err |-> <<>>]

\* Mutant: the key is checked only when the value type is inferred.
MapCase_OverrideBeforeKeyCheck(fb, t, n, items, values) ==
    LET n1 == [n EXCEPT !.types = Append(@, StringValue(sMap))]
    IN IF values # <<>>
       THEN [s |-> [n1 EXCEPT !.values = AppendStrings(@, values)], err |-> <<>>]
       ELSE IF t.key.kind # "string"
       THEN [s |-> n1, err |-> <<"map key must be string">>]
       ELSE LET r == inferSchema(fb, t.elem, <<>>, <<>>)
            IN IF r.err # <<>>
               THEN [s |-> n1, err |-> Errorf("map", r.err)]
               ELSE [s |-> [n1 EXCEPT !.values = Append(@, SchemaValue(r.s))],
                     err |-> <<>>]

MapCase(fb, t, n, items, values) ==
    LET n1 == [n EXCEPT !.types = Append(@, StringValue(sMap))]
    IN IF t.key.kind # "string"
       THEN [s |-> n1, err |-> <<"map key must be string">>]
       ELSE IF values # <<>>
       THEN [s |-> [n1 EXCEPT !.values = AppendStrings(@, values)], err |-> <<>>]
       ELSE LET r == inferSchema(fb, t.elem, <<>>, <<>>)
            IN IF r.err # <<>>
               THEN [s |-> n1, err |-> Errorf("map", r.err)]
               ELSE [s |-> [n1 EXCEPT !.values = Append(@, SchemaValue(r.s))],
                     err |-> <<>>]

DefaultCase(t, n) ==
    LET r == inferType(t)
    IN IF r.err # <<>>
       THEN [s |-> n, err |-> Errorf("default", r.err)]
       ELSE [s |-> [n EXCEPT !.types = Append(@, StringValue(r.typ))], err |-> <<>>]

\* Mutant: a pointer's node is named after the pointee type.
NewSchema_PointeeName(t) ==
    [TypedSchema EXCEPT !.Name = IF t.kind = "ptr" THEN t.elem.name ELSE t.name]

\* s.Name = t.Name()
NewSchema(t) == [TypedSchema EXCEPT !.Name = t.name]

inferSchema(fb, t, items, values) ==
    LET n == NewSchema(t)
        r == CASE t.kind = "ptr" -> PtrCase(fb, t, n, items, values)
               [] t.kind = "struct" -> StructCase(fb, t, n, items, values)
               [] t.kind = "slice" -> SliceCase(fb, t, n, items, values)
               [] t.kind = "map" -> MapCase(fb, t, n, items, values)
               [] OTHER -> DefaultCase(t, n)
    IN IF r.err # <<>> THEN r ELSE [s |-> CollapseAll(r.s), err |-> <<>>]

-----------------------------------------------------------------------------
(* encoding/json on a TypedSchema *)

\* One character of a JSON string (json.Marshal escapes HTML characters).
EscapeChar(c) ==
    CASE c = "\"" -> <<"\\", "\"">>
      [] c = "\\" -> <<"\\", "\\">>
      [] c = "<" -> <<"\\", "u", "0", "0", "3", "c">>
      [] c = ">" -> <<"\\", "u", "0", "0", "3", "e">>
      [] c = "&" -> <<"\\", "u", "0", "0", "2", "6">>
      [] OTHER -> <<c>>

RECURSIVE Escape(_)
Escape(str) ==
    IF str = <<>> THEN <<>> ELSE EscapeChar(Head(str)) \o Escape(Tail(str))

Quote(str) == <<"\"">> \o Escape(str) \o <<"\"">>

RECURSIVE MarshalSchema(_)
RECURSIVE MarshalValue(_)
RECURSIVE MarshalList(_, _)
RECURSIVE MarshalFields(_, _)

\* The elements of a []interface{} from the i-th on, comma-separated.
MarshalList(l, i) ==
    IF i > Len(l) THEN <<>>
    ELSE (IF i > 1 THEN <<",">> ELSE <<>>) \o MarshalValue(l[i]) \o MarshalList(l, i + 1)

MarshalFields(l, i) ==
    IF i > Len(l) THEN <<>>
    ELSE (IF i > 1 THEN <<",">> ELSE <<>>) \o MarshalSchema(l[i]) \o MarshalFields(l, i + 1)

MarshalValue(x) ==
    CASE x.k = "nil" -> sNull
      [] x.k = "string" -> Quote(x.v)
      [] x.k = "schema" -> MarshalSchema(x.v)
      [] x.k = "list" -> <<"[">> \o MarshalList(x.v, 1) \o <<"]">>

\* The exported attributes in declaration order; items, values and fields
\* are omitempty.
MarshalSchema(n) ==
    <<"{", "\"", "n", "a", "m", "e", "\"", ":">> \o Quote(n.Name)
    \o <<",", "\"", "t", "y", "p", "e", "\"", ":">> \o MarshalValue(n.Type)
    \o (IF n.Items # NilValue
        THEN <<",", "\"", "i", "t", "e", "m", "s", "\"", ":">> \o MarshalValue(n.Items)
        ELSE <<>>)
    \o (IF n.Values # NilValue
        THEN <<",", "\"", "v", "a", "l", "u", "e", "s", "\"", ":">>
             \o MarshalValue(n.Values)
        ELSE <<>>)
    \o (IF Len(n.Fields) > 0
        THEN <<",", "\"", "f", "i", "e", "l", "d", "s", "\"", ":", "[">>
             \o MarshalFields(n.Fields, 1) \o <<"]">>
        ELSE <<>>)
    \o <<"}">>

-----------------------------------------------------------------------------
(* The input universe *)

String == Scalar("string", sString)
Bool == Scalar("bool", <<"b","o","o","l">>)
Int == Scalar("int", sInt)
Int64 == Scalar("int64", <<"i","n","t","6","4">>)
Uint == Scalar("uint", <<"u","i","n","t">>)
Uint8 == Scalar("uint8", <<"u","i","n","t","8">>)
Float32 == Scalar("float32", <<"f","l","o","a","t","3","2">>)
Float64 == Scalar("float64", <<"f","l","o","a","t","6","4">>)
Complex128 == Scalar("complex128", <<"c","o","m","p","l","e","x","1","2","8">>)
Chan == Scalar("chan", <<>>)

tokX == <<"x">>
tokY == <<"y">>
AvroTag(name, options) == Tag(sAvro, name, options)
JsonTag(name, options) == Tag(sJson, name, options)
optType(l) == sTypeEq \o l
optItems(l) == sItemsEq \o l
optValues(l) == sValuesEq \o l
XY == <<"x", "|", "y">>
StringNull == sString \o <<"|">> \o sNull

NoTag == Tags(<<>>)

\* type E struct { F string }
TypeE == StructOf(<<"E">>, <<StructField(<<"F">>, String, NoTag)>>)

\* type G struct {
\*     H []complex128   `avro:"h,items=string|null"`
\*     K map[int]string `json:"k" avro:",type=x"`
\* }
TypeG ==
    StructOf(<<"G">>,
        <<StructField(<<"H">>, SliceOf(Complex128),
                      Tags(<<AvroTag(<<"h">>, <<optItems(StringNull)>>)>>)),
          StructField(<<"K">>, MapOf(Int, String),
                      Tags(<<JsonTag(<<"k">>, <<>>), AvroTag(<<>>, <<optType(tokX)>>)>>))>>)

Leaves == {String, Int, Complex128, TypeE, TypeG}

Wrap(S) ==
    {PtrTo(t) : t \in S} \cup {SliceOf(t) : t \in S}
    \cup {MapOf(String, t) : t \in S} \cup {MapOf(Int, t) : t \in S}

RECURSIVE Nested(_)
Nested(d) == IF d = 0 THEN Leaves ELSE LET S == Nested(d - 1) IN S \cup Wrap(S)

FieldTags ==
    { NoTag,
      BadTag,
      Tags(<<AvroTag(<<"b">>, <<<<"o","m","i","t">>>>)>>),
      Tags(<<JsonTag(<<"j">>, <<>>)>>),
      Tags(<<JsonTag(<<"j">>, <<>>), AvroTag(<<"b">>, <<>>)>>),
      Tags(<<AvroTag(<<"b">>, <<optType(XY)>>)>>),
      Tags(<<AvroTag(<<"b">>, <<optType(tokX)>>)>>),
      Tags(<<AvroTag(<<>>, <<optType(XY)>>), JsonTag(<<"j">>, <<>>)>>),
      Tags(<<AvroTag(<<"b">>, <<optType(sArray)>>)>>),
      Tags(<<AvroTag(<<"b">>, <<<<"o","m","i","t">>, optItems(StringNull)>>)>>),
      Tags(<<AvroTag(<<"b">>, <<optItems(tokX)>>)>>),
      Tags(<<AvroTag(<<"b">>, <<optValues(XY)>>)>>),
      Tags(<<JsonTag(<<"j">>, <<>>), AvroTag(<<"b">>, <<optValues(tokY)>>)>>),
      Tags(<<AvroTag(<<"b">>, <<optType(tokX), optItems(tokY), optValues(tokX)>>)>>),
      Tags(<<AvroTag(<<"b">>, <<optItems(XY), optValues(<<"y", "|", "x">>)>>)>>),
      Tags(<<AvroTag(<<"b">>, <<optItems(tokX), optItems(tokY)>>)>>),
      Tags(<<JsonTag(<<"j">>, <<optType(XY), optItems(tokX), optValues(tokX)>>)>>) }

\* Root types that are not records.
PlainRoots ==
    Nested(MaxDepth)
    \cup {Bool, Int64, Uint, Uint8, Float32, Float64, Chan, NamedPtrTo(<<"P">>, TypeE)}

\* type A struct { B <type> `<tag>` }
OneFieldRoots ==
    {StructOf(<<"A">>, <<StructField(<<"B">>, t, tag)>>) :
        t \in Nested(MaxDepth), tag \in FieldTags}

\* The fields of the records of several fields.
FieldChoices ==
    { StructField(<<"B">>, String, Tags(<<AvroTag(<<"b">>, <<>>)>>)),
      StructField(<<"C">>, Int, NoTag),
      StructField(<<"E">>, TypeE, NoTag),
      StructField(<<"X">>, Complex128, NoTag),
      StructField(<<"M">>, MapOf(Int, String), Tags(<<JsonTag(<<"m">>, <<>>)>>)),
      StructField(<<"T">>, SliceOf(Chan), Tags(<<AvroTag(<<"t">>, <<optType(XY)>>)>>)) }

FieldLists == UNION {[1..n -> FieldChoices] : n \in 0..MaxFields}

ManyFieldRoots == {StructOf(<<"A">>, l) : l \in FieldLists}

Inputs == PlainRoots \cup OneFieldRoots \cup ManyFieldRoots

FallbackTags == {<<>>, sJson, sAvro}

-----------------------------------------------------------------------------
(* InferSchema *)

Init ==
    /\ fallbackTag \in FallbackTags
    /\ v \in Inputs
    /\ pc = "infer"
    /\ s = TypedSchema
    /\ err = <<>>
    /\ out = <<>>

\* s, err := inferSchema(fallbackTag, reflect.TypeOf(v), nil, nil)
Infer ==
    /\ pc = "infer"
    /\ LET r == inferSchema(fallbackTag, v, <<>>, <<>>)
       IN /\ s' = r.s
          /\ IF r.err # <<>>
             THEN /\ err' = Errorf("infer schema", r.err)
                  /\ pc' = "done"
             ELSE /\ err' = <<>>
                  /\ pc' = "marshal"
    /\ UNCHANGED <<fallbackTag, v, out>>

\* b, err := json.Marshal(s); return string(b), nil
Marshal ==
    /\ pc = "marshal"
    /\ out' = MarshalSchema(s)
    /\ pc' = "done"
    /\ UNCHANGED <<fallbackTag, v, s, err>>

Next == Infer \/ Marshal

Spec == Init /\ [][Next]_vars

-----------------------------------------------------------------------------
(* Vocabulary of the properties *)

Succeeded == pc \in {"marshal", "done"} /\ err = <<>>
Failed == pc = "done" /\ err # <<>>

\* The options of the canonical-key (avro) annotation; none without one.
AvroOptions(tag) ==
    IF tag.err = <<>> /\ \E i \in 1..Len(tag.tags) : tag.tags[i].Key = sAvro
    THEN LET i == CHOOSE k \in 1..Len(tag.tags) :
                      /\ tag.tags[k].Key = sAvro
                      /\ \A j \in 1..(k - 1) : tag.tags[j].Key # sAvro
         IN tag.tags[i].Options
    ELSE <<>>

\* The positions of the options that start with the prefix.
OptionsAt(tag, prefix) ==
    {i \in 1..Len(AvroOptions(tag)) : HasPrefix(AvroOptions(tag)[i], prefix)}

HasOption(tag, prefix) == OptionsAt(tag, prefix) # {}

\* The token list of the override in force: the one of the last such option.
OptionTokens(tag, prefix) ==
    IF HasOption(tag, prefix)
    THEN LET i == CHOOSE k \in OptionsAt(tag, prefix) :
                      \A j \in OptionsAt(tag, prefix) : j <= k
             opt == AvroOptions(tag)[i]
         IN Split(SubSeq(opt, Len(prefix) + 1, Len(opt)), sPipe)
    ELSE <<>>

\* A token list as a schema attribute: a bare token, or the ordered list.
TokenUnion(tokens) ==
    IF Len(tokens) = 1 THEN StringValue(tokens[1])
    ELSE ListValue([i \in 1..Len(tokens) |-> StringValue(tokens[i])])

\* The name the annotations give a field.
ResolvedName(field) ==
    LET tags == field.Tag.tags
        avro == {i \in 1..Len(tags) : tags[i].Key = sAvro}
        fall == {i \in 1..Len(tags) : tags[i].Key = fallbackTag}
        first(S) == CHOOSE i \in S : \A j \in S : i <= j
    IN IF avro # {} THEN tags[first(avro)].Name
       ELSE IF fall # {} THEN tags[first(fall)].Name
       ELSE field.Name

\* The inference calls of a successful inference of t that gave node n, each
\* with the type it was made for and the node it returned.
RECURSIVE Calls(_, _)
Calls(t, n) ==
    {[t |-> t, n |-> n]} \cup
    CASE t.kind = "ptr" ->
            IF n.Type.k = "list" /\ Len(n.Type.v) >= 1 /\ n.Type.v[1].k = "schema"
            THEN Calls(t.elem, n.Type.v[1].v) ELSE {}
      [] t.kind = "struct" ->
            UNION { IF i <= Len(n.Fields) /\ ~HasOption(t.fields[i].Tag, sTypeEq)
                    THEN Calls(t.fields[i].Type, n.Fields[i]) ELSE {} :
                    i \in 1..Len(t.fields) }
      [] t.kind = "slice" ->
            IF n.Items.k = "schema" THEN Calls(t.elem, n.Items.v) ELSE {}
      [] t.kind = "map" ->
            IF n.Values.k = "schema" THEN Calls(t.elem, n.Values.v) ELSE {}
      [] OTHER -> {}

\* The record fields met by a successful inference, each with its node.
FieldNodes ==
    UNION { {[f |-> c.t.fields[i], n |-> c.n.Fields[i]] :
                i \in 1..(IF Len(c.n.Fields) < Len(c.t.fields)
                          THEN Len(c.n.Fields) ELSE Len(c.t.fields))} :
            c \in {d \in Calls(v, s) : d.t.kind = "struct"} }

\* Every node of a schema tree.
RECURSIVE Nodes(_)
RECURSIVE ValueNodes(_)
ValueNodes(x) ==
    CASE x.k = "schema" -> Nodes(x.v)
      [] x.k = "list" -> UNION {ValueNodes(x.v[i]) : i \in 1..Len(x.v)}
      [] OTHER -> {}

Nodes(n) ==
    {n} \cup ValueNodes(n.Type) \cup ValueNodes(n.Items) \cup ValueNodes(n.Values)
    \cup UNION {Nodes(n.Fields[i]) : i \in 1..Len(n.Fields)}

-----------------------------------------------------------------------------
(* C1 *)

\* C1: every record field whose avro annotation carries one type= option gets,
\* in a successful inference, a node whose type is the option's token list (a
\* bare token for a single token), whatever the kind of the field's own type,
\* and the field's own type is not inferred (no items, values or fields).
C1_TypeOverrideIsFieldType ==
    Succeeded =>
        \A fn \in FieldNodes :
            Cardinality(OptionsAt(fn.f.Tag, sTypeEq)) = 1 =>
                /\ fn.n.Type = TokenUnion(OptionTokens(fn.f.Tag, sTypeEq))
                /\ fn.n.Items = NilValue
                /\ fn.n.Values = NilValue
                /\ fn.n.Fields = <<>>

-----------------------------------------------------------------------------
(* C2 *)

\* type A struct { B string `avro:"b"`; C int; E E }
TypeA ==
    StructOf(<<"A">>,
        <<StructField(<<"B">>, String, Tags(<<AvroTag(<<"b">>, <<>>)>>)),
          StructField(<<"C">>, Int, NoTag),
          StructField(<<"E">>, TypeE, NoTag)>>)

JSON_A ==
    <<"{", "\"", "n", "a", "m", "e", "\"", ":", "\"", "A", "\"", ",", "\"", "t", "y", "p",
      "e", "\"", ":", "\"", "r", "e", "c", "o", "r", "d", "\"", ",", "\"", "f", "i", "e",
      "l", "d", "s", "\"", ":", "[", "{", "\"", "n", "a", "m", "e", "\"", ":", "\"", "b",
      "\"", ",", "\"", "t", "y", "p", "e", "\"", ":", "\"", "s", "t", "r", "i", "n", "g",
      "\"", "}", ",", "{", "\"", "n", "a", "m", "e", "\"", ":", "\"", "C", "\"", ",", "\"",
      "t", "y", "p", "e", "\"", ":", "\"", "i", "n", "t", "\"", "}", ",", "{", "\"", "n",
      "a", "m", "e", "\"", ":", "\"", "E", "\"", ",", "\"", "t", "y", "p", "e", "\"", ":",
      "\"", "r", "e", "c", "o", "r", "d", "\"", ",", "\"", "f", "i", "e", "l", "d", "s",
      "\"", ":", "[", "{", "\"", "n", "a", "m", "e", "\"", ":", "\"", "F", "\"", ",", "\"",
      "t", "y", "p", "e", "\"", ":", "\"", "s", "t", "r", "i", "n", "g", "\"", "}", "]",
      "}", "]", "}">>

\* The inference of a field's own type, under the field's own overrides.
FieldInference(f) ==
    inferSchema(fallbackTag, f.Type,
                OptionTokens(f.Tag, sItemsEq), OptionTokens(f.Tag, sValuesEq))

\* A field's annotations parse and its type infers.
Inferable(f) == f.Tag.err = <<>> /\ FieldInference(f).err = <<>>

\* The root node is the record node of the root type.
RecordShape ==
    /\ s.Name = v.name
    /\ s.Type = StringValue(sRecord)
    /\ Len(s.Fields) = Len(v.fields)

\* C2 as stated: a record whose fields are all inferable infers to a record
\* node with one node per field, in order, each the inference of the field's
\* type under the resolved field name; record A renders as its literal text.
C2_RecordFieldsAreInferences ==
    (pc = "done" /\ v.kind = "struct" /\ \A i \in 1..Len(v.fields) : Inferable(v.fields[i]))
    => /\ err = <<>>
       /\ RecordShape
       /\ \A i \in 1..Len(v.fields) :
             s.Fields[i] =
                [FieldInference(v.fields[i]).s EXCEPT !.Name = ResolvedName(v.fields[i])]
       /\ (v = TypeA => out = JSON_A)

\* A field is settled by inference unless it carries a type= option.
Inferred(f) == ~HasOption(f.Tag, sTypeEq)

\* C2, amended: a record whose annotations parse and whose fields without a
\* type= option are all inferable infers to a record node with one node per
\* field, in order; the node of a field without a type= option is the
\* inference of the field's type under the resolved field name; record A
\* renders as its literal text.
C2_RecordFieldsInOrder ==
    (pc = "done" /\ v.kind = "struct"
        /\ \A i \in 1..Len(v.fields) :
              /\ v.fields[i].Tag.err = <<>>
              /\ Inferred(v.fields[i]) => Inferable(v.fields[i]))
    => /\ err = <<>>
       /\ RecordShape
       /\ \A i \in 1..Len(v.fields) :
             /\ s.Fields[i].Name = ResolvedName(v.fields[i])
             /\ Inferred(v.fields[i]) =>
                   s.Fields[i] =
                      [FieldInference(v.fields[i]).s
                          EXCEPT !.Name = ResolvedName(v.fields[i])]
       /\ (v = TypeA => out = JSON_A)

C2_Witness ==
    /\ pc = "done"
    /\ v = TypeA
    /\ out = JSON_A
    /\ Len(s.Fields) = 3

-----------------------------------------------------------------------------
(* C3 *)

\* The marker of the structural case of a type.
CaseMarker(t) ==
    CASE t.kind = "ptr" -> "ptr"
      [] t.kind = "struct" -> "struct"
      [] t.kind = "slice" -> "slice"
      [] t.kind = "map" -> "map"
      [] OTHER -> "default"

\* The segment of an error in front of the first segment that is no marker.
CauseAt(e) ==
    CHOOSE i \in 1..Len(e) :
        /\ e[i] \notin {"infer schema", "ptr", "struct", "slice", "map", "default"}
        /\ \A j \in 1..(i - 1) :
              e[j] \in {"infer schema", "ptr", "struct", "slice", "map", "default"}

\* C3: a failure that reaches the caller carries the marker of the case it
\* occurred in: the marker of the root's case comes first, and the cause is
\* preceded by "default" (unsupported scalar), "struct" (annotation parse
\* failure) or "map" (non-string map key).
C3_FailureCarriesCaseMarker ==
    Failed =>
        /\ err[1] = "infer schema"
        /\ Len(err) >= 3
        /\ err[2] = CaseMarker(v)
        /\ err[CauseAt(err)] = "unsupported type" => err[CauseAt(err) - 1] = "default"
        /\ err[CauseAt(err)] = "bad syntax for struct tag pair"
              => err[CauseAt(err) - 1] = "struct"
        /\ err[CauseAt(err)] = "map key must be string" => err[CauseAt(err) - 1] = "map"

-----------------------------------------------------------------------------
(* C4 *)

BadKeyMap(t) == t.kind = "map" /\ t.key.kind # "string"

InvalidMapKey(e) == e # <<>> /\ e[Len(e)] = "map key must be string"

\* Inferring t with no overrides comes to infer a map with a non-string key
\* before anything else can fail.
RECURSIVE InfersBadKeyMap(_)
InfersBadKeyMap(t) ==
    \/ BadKeyMap(t)
    \/ t.kind \in {"ptr", "slice"} /\ InfersBadKeyMap(t.elem)
    \/ t.kind = "map" /\ InfersBadKeyMap(t.elem)

\* The same of a field's type, under the field's overrides.
FieldInfersBadKeyMap(f) ==
    /\ f.Tag.err = <<>>
    /\ Inferred(f)
    /\ \/ BadKeyMap(f.Type)
       \/ f.Type.kind = "ptr" /\ InfersBadKeyMap(f.Type.elem)
       \/ f.Type.kind = "slice" /\ ~HasOption(f.Tag, sItemsEq)
             /\ InfersBadKeyMap(f.Type.elem)
       \/ f.Type.kind = "map" /\ ~HasOption(f.Tag, sValuesEq)
             /\ InfersBadKeyMap(f.Type.elem)

\* A field that is settled without a failure.
FieldSucceeds(f) == f.Tag.err = <<>> /\ (Inferred(f) => Inferable(f))

\* C4: inferring a map whose key type is not string-like fails with the
\* invalid-map-key error and the call returns no text, whatever the value type
\* and whether or not a values override was supplied.
C4_NonStringKeyFails ==
    pc # "infer" =>
        /\ InfersBadKeyMap(v) => Failed /\ InvalidMapKey(err) /\ out = <<>>
        /\ v.kind = "struct" =>
              \A i \in 1..Len(v.fields) :
                 (/\ FieldInfersBadKeyMap(v.fields[i])
                  /\ \A j \in 1..(i - 1) : FieldSucceeds(v.fields[j]))
                 => Failed /\ InvalidMapKey(err) /\ out = <<>>

C4_Witness ==
    /\ Failed
    /\ v.kind = "struct"
    /\ Len(v.fields) = 1
    /\ BadKeyMap(v.fields[1].Type)
    /\ v.fields[1].Type.elem.kind = "complex128"
    /\ HasOption(v.fields[1].Tag, sValuesEq)
    /\ Inferred(v.fields[1])
    /\ InvalidMapKey(err)

-----------------------------------------------------------------------------
(* C5 *)

\* C5: the name of a field's node is the canonical-key annotation's name when
\* there is one, else the fallback-key annotation's name when there is one,
\* else the declared identifier, with or without a type= option, and in place
\* of the name the inference of the field's type gave.
C5_FieldNameResolution ==
    Succeeded => \A fn \in FieldNodes : fn.n.Name = ResolvedName(fn.f)

C5_Witness ==
    /\ Succeeded
    /\ fallbackTag = sJson
    /\ \E fn \in FieldNodes :
          /\ HasTag(fn.f.Tag.tags, sJson)
          /\ HasTag(fn.f.Tag.tags, sAvro)
          /\ GetTag(fn.f.Tag.tags, sJson).Name # GetTag(fn.f.Tag.tags, sAvro).Name
          /\ HasOption(fn.f.Tag, sTypeEq)
          /\ fn.n.Name = GetTag(fn.f.Tag.tags, sAvro).Name
    /\ \E fn \in FieldNodes :
          /\ HasTag(fn.f.Tag.tags, sJson)
          /\ ~HasTag(fn.f.Tag.tags, sAvro)
          /\ fn.n.Name = GetTag(fn.f.Tag.tags, sJson).Name
          /\ fn.n.Name # fn.f.Name

-----------------------------------------------------------------------------
(* C6 *)

ItemsOverridden(f) ==
    /\ f.Tag.err = <<>>
    /\ f.Type.kind = "slice"
    /\ HasOption(f.Tag, sItemsEq)
    /\ Inferred(f)

\* C6: a sequence field annotated items=<tokens>, without type=, gets a node
\* of type "array" whose items are the tokens in order (a bare token for one),
\* and its element type is not inferred: an element type that cannot be
\* inferred does not make the inference fail.
C6_ItemsOverrideIsVerbatim ==
    /\ Succeeded =>
          \A fn \in FieldNodes :
             ItemsOverridden(fn.f) =>
                /\ fn.n.Type = StringValue(sArray)
                /\ fn.n.Items = TokenUnion(OptionTokens(fn.f.Tag, sItemsEq))
                /\ fn.n.Values = NilValue
                /\ fn.n.Fields = <<>>
    /\ (pc = "done" /\ v.kind = "struct"
           /\ \A i \in 1..Len(v.fields) :
                 ItemsOverridden(v.fields[i]) \/ FieldSucceeds(v.fields[i]))
       => err = <<>>

C6_Witness ==
    /\ pc = "done"
    /\ err = <<>>
    /\ v.kind = "struct"
    /\ Len(v.fields) = 1
    /\ ItemsOverridden(v.fields[1])
    /\ InfersBadKeyMap(v.fields[1].Type.elem)
    /\ s.Fields[1].Items = ListValue(<<StringValue(sString), StringValue(sNull)>>)

-----------------------------------------------------------------------------
(* C7 *)

\* The node of the inference of a type with no overrides.
Inferred0(t) == inferSchema(fallbackTag, t, <<>>, <<>>)

\* C7: when T infers, pointer-to-T infers, to a node whose type is the union
\* of the node inferred for T with no overrides and "null", in this order,
\* also for a pointer field that carries items= or values=.
C7_PointerIsUnionWithNull ==
    /\ (pc = "done" /\ v.kind = "ptr" /\ Inferred0(v.elem).err = <<>>) => err = <<>>
    /\ (pc = "done" /\ v.kind = "struct"
           /\ \A i \in 1..Len(v.fields) :
                 /\ v.fields[i].Tag.err = <<>>
                 /\ Inferred(v.fields[i])
                 /\ v.fields[i].Type.kind = "ptr"
                 /\ Inferred0(v.fields[i].Type.elem).err = <<>>)
       => err = <<>>
    /\ Succeeded =>
          \A c \in Calls(v, s) :
             c.t.kind = "ptr" =>
                c.n.Type = ListValue(<<SchemaValue(Inferred0(c.t.elem).s),
                                       StringValue(sNull)>>)

C7_Witness ==
    /\ Succeeded
    /\ \E fn \in FieldNodes :
          /\ fn.f.Type.kind = "ptr"
          /\ fn.f.Type.elem.kind = "slice"
          /\ HasOption(fn.f.Tag, sItemsEq)
          /\ Inferred(fn.f)
          /\ fn.n.Type.k = "list"
          /\ Len(fn.n.Type.v) = 2
          /\ fn.n.Type.v[2] = StringValue(sNull)

-----------------------------------------------------------------------------
(* C8 *)

\* C8 as stated: the node of a pointer type (the root, or the element of a
\* root sequence) is named after the pointee type.
C8_PointerNodeNamedAfterPointee ==
    Succeeded =>
        /\ v.kind = "ptr" => s.Name = v.elem.name
        /\ (v.kind = "slice" /\ v.elem.kind = "ptr") => s.Items.v.Name = v.elem.elem.name

\* C8, amended: the node of a pointer type is named after the pointer type
\* itself, which has no name unless it is a defined type; the pointee's name
\* is the name of the first member of the node's union.
C8_PointerNodeNamedAfterPointer ==
    Succeeded =>
        /\ v.kind = "ptr" =>
              /\ s.Name = v.name
              /\ s.Type.v[1].v.Name = v.elem.name
        /\ (v.kind = "slice" /\ v.elem.kind = "ptr") =>
              /\ s.Items.v.Name = <<>>
              /\ s.Items.v.Type.v[1].v.Name = v.elem.elem.name

C8_Witness ==
    /\ pc = "done"
    /\ err = <<>>
    /\ v = PtrTo(TypeE)
    /\ s.Name = <<>>
    /\ s.Type.v[1].v.Name = <<"E">>

-----------------------------------------------------------------------------
(* C9 *)

\* A node's type is a primitive name or a union.
PrimitiveOrUnion(n) ==
    \/ n.Type.k = "list"
    \/ n.Type \in {StringValue(sString), StringValue(sBoolean), StringValue(sInt),
                   StringValue(sLong), StringValue(sDouble)}

\* C9: every node of a successfully inferred tree has at most one of items,
\* values and fields, and the one it has matches its type: items exactly when
\* the type is "array", values exactly when it is "map", fields only when it
\* is "record", none when it is a primitive name or a union.
C9_ChildrenMatchType ==
    Succeeded =>
        \A n \in Nodes(s) :
            /\ Cardinality({a \in {"items", "values", "fields"} :
                               \/ a = "items" /\ n.Items # NilValue
                               \/ a = "values" /\ n.Values # NilValue
                               \/ a = "fields" /\ n.Fields # <<>>}) <= 1
            /\ n.Items # NilValue <=> n.Type = StringValue(sArray)
            /\ n.Values # NilValue <=> n.Type = StringValue(sMap)
            /\ n.Fields # <<>> => n.Type = StringValue(sRecord)
            /\ PrimitiveOrUnion(n) =>
                  n.Items = NilValue /\ n.Values = NilValue /\ n.Fields = <<>>

C9_Witness ==
    /\ Succeeded
    /\ \E n \in Nodes(s) : n.Items # NilValue /\ n.Type = StringValue(sArray)
    /\ \E n \in Nodes(s) : n.Values # NilValue /\ n.Type = StringValue(sMap)
    /\ \E n \in Nodes(s) : n.Fields # <<>> /\ n.Type = StringValue(sRecord)
    /\ \E n \in Nodes(s) : n.Type.k = "list"
    /\ \E fn \in FieldNodes : HasOption(fn.f.Tag, sTypeEq)

-----------------------------------------------------------------------------
(* C10 *)

\* The field's override is consumed by the inference of the field's own type.
Consumed(f) ==
    \/ f.Type.kind = "slice" /\ HasOption(f.Tag, sItemsEq)
    \/ f.Type.kind = "map" /\ HasOption(f.Tag, sValuesEq)

\* C10: an items= or values= override of a field is used only when the
\* field's own type is a sequence (items) or a map (values); any other field
\* type, and every element, value and pointee type below the field, is
\* inferred as with no overrides.
C10_OverridesAreNotInherited ==
    Succeeded =>
        \A fn \in FieldNodes :
            Inferred(fn.f) =>
                /\ (fn.f.Type.kind = "slice" /\ HasOption(fn.f.Tag, sItemsEq)) =>
                      fn.n.Items = TokenUnion(OptionTokens(fn.f.Tag, sItemsEq))
                /\ (fn.f.Type.kind = "map" /\ HasOption(fn.f.Tag, sValuesEq)) =>
                      fn.n.Values = TokenUnion(OptionTokens(fn.f.Tag, sValuesEq))
                /\ ~Consumed(fn.f) =>
                      /\ Inferred0(fn.f.Type).err = <<>>
                      /\ fn.n = [Inferred0(fn.f.Type).s EXCEPT !.Name = fn.n.Name]

C10_Witness ==
    /\ Succeeded
    /\ v.kind = "struct"
    /\ Len(v.fields) = 1
    /\ v.fields[1].Type = MapOf(String, SliceOf(String))
    /\ HasOption(v.fields[1].Tag, sItemsEq)
    /\ Inferred(v.fields[1])
    /\ s.Fields[1].Values.k = "schema"
    /\ s.Fields[1].Values.v.Items = SchemaValue(Inferred0(String).s)

====
